---- MODULE Spec2Model ----
(***************************************************************************)
(* A model of the aeron-go client core:                                    *)
(*   - package aeron (src/aeron/aeron.go): Aeron.AddPublication and        *)
(*     Aeron.AddSubscription, the goroutine each of them starts, and the   *)
(*     conductor registrations those goroutines poll;                      *)
(*   - package logbuffer (src/unnamed/part_000): Wrap and                  *)
(*     LogBuffers.Close over the memory maps they create and release.      *)
(* The two parts share no state; each has its own specification.           *)
(***************************************************************************)
EXTENDS Integers, Sequences, FiniteSets, TLC

VARIABLES
    \* ---- package aeron -------------------------------------------------
    callPc,             \* position of each Add* call (the calling goroutine)
    callKind,           \* "pub" for AddPublication, "sub" for AddSubscription
    regID,              \* the call's local regID (0: not yet assigned)
    goPc,               \* position of the goroutine the call starts
    found,              \* the goroutine's local publication / subscription
    ch,                 \* the call's channel: [buf, closed]
    nextCorrelationId,  \* the driver proxy's correlation counter
    registrations,      \* the conductor's table, keyed by correlation id
    toDriver,           \* commands written to the to-driver ring, in order
    addCount,           \* history: conductor.Add* invocations made per call
    polled,             \* history: the call's goroutine has called Find*
    sent,               \* history: values sent on the call's channel
    received,           \* history: what a receiver got from the channel
    \* ---- package logbuffer ---------------------------------------------
    file,               \* the log file on disk: [size, metaTermLength]
    wrapPc,             \* position of the Wrap call
    wrapI,              \* Wrap's loop index in the multi-mapping path
    wrapPanic,          \* why Wrap or Close panicked ("none": it did not)
    mmapFiles,          \* LogBuffers.mmapFiles: a sequence of handles
    buffers,            \* LogBuffers.buffers: PartitionCount + 1 views
    maps,               \* the mappings made so far: handle -> region
    mapCalls,           \* history: MapExisting calls, in order
    unmapLog,           \* history: File.Close (unmap) calls, in order
    closeCalls,         \* history: LogBuffers.Close calls made
    closeErr,           \* what the last LogBuffers.Close returned
    \* ---- package aeron: Connect and Aeron.Close -------------------------
    connectPc,          \* the next statement of Connect (index in ConnectSteps)
    connectState,       \* "connecting", "connected" or "panicked"
    wired,              \* the parts of the client Connect has set so far
    conductorStarted,   \* history: conductor.Run goroutines launched
    conductorRunning,   \* whether the conductor loop is running
    workCount,          \* history: iterations of the conductor loop
    sawUnset,           \* history: an iteration ran with a part still unset
    aeronClosePc,       \* position of the Aeron.Close call
    aeronErr,           \* Aeron.Close's local err
    conductorErr,       \* history: what conductor.Close returned
    cncErr,             \* history: what cncFile.Close returned
    closeEvents,        \* history: the calls Aeron.Close made, in order
    aeronCloseRet       \* what Aeron.Close returned

addVars == <<callPc, callKind, regID, goPc, found, ch, nextCorrelationId,
             registrations, toDriver, addCount, polled, sent, received>>
logVars == <<file, wrapPc, wrapI, wrapPanic, mmapFiles, buffers, maps, mapCalls,
             unmapLog, closeCalls, closeErr>>
aeronVars == <<connectPc, connectState, wired, conductorStarted, conductorRunning,
               workCount, sawUnset, aeronClosePc, aeronErr, conductorErr, cncErr,
               closeEvents, aeronCloseRet>>
vars == <<addVars, logVars, aeronVars>>

(***************************************************************************)
(* Part 1: Aeron.AddPublication / Aeron.AddSubscription                    *)
(***************************************************************************)

\* Number of Add* calls made, concurrently, by the application.
NumCalls == 2

Calls == 1..NumCalls

\* Every call registers once, so the correlation ids in use are 1..NumCalls.
CorrelationIds == 1..NumCalls

\* The nil *Publication / *Subscription.
Nil == [kind |-> "nil", correlationId |-> 0]

\* The Publication / Subscription the conductor instantiates for a registration.
Resolved(kind, id) == [kind |-> kind, correlationId |-> id]

\* What a receive from a closed, drained channel yields (zero value, ok = false).
ClosedMark == [kind |-> "closed", correlationId |-> 0]

NoRegistration == [kind |-> "none", status |-> "None"]

\* An unbuffered channel, make(chan *T).
ChanUnbuffered == 1 - 1

\* make(chan *T, 1)
ChanCap == 1

MakeChan == [buf |-> <<>>, closed |-> FALSE]

InitAdd ==
    /\ callPc = [c \in Calls |-> "idle"]
    /\ callKind = [c \in Calls |-> "none"]
    /\ regID = [c \in Calls |-> 0]
    /\ goPc = [c \in Calls |-> "none"]
    /\ found = [c \in Calls |-> Nil]
    /\ ch = [c \in Calls |-> MakeChan]
    /\ nextCorrelationId = 1
    /\ registrations = [id \in CorrelationIds |-> NoRegistration]
    /\ toDriver = <<>>
    /\ addCount = [c \in Calls |-> 0]
    /\ polled = [c \in Calls |-> FALSE]
    /\ sent = [c \in Calls |-> <<>>]
    /\ received = [c \in Calls |-> <<>>]

\* ---- ClientConductor and DriverProxy (package aeron; not among the sources) ----

\* ClientConductor.AddPublication / AddSubscription: take a fresh correlation
\* id, record a pending entry, write the command, return the id.
ConductorAdd(kind) ==
    /\ registrations' = [registrations EXCEPT ![nextCorrelationId] =
                            [kind |-> kind, status |-> "AwaitingMediaDriver"]]
    /\ toDriver' = Append(toDriver, [type |-> kind, correlationId |-> nextCorrelationId])
    /\ nextCorrelationId' = nextCorrelationId + 1

\* Whether Find*(id) hits an entry of its own table.
HasEntry(id, kind) ==
    /\ id \in CorrelationIds
    /\ registrations[id].kind = kind

\* ClientConductor.FindPublication / FindSubscription, the value returned:
\* the resolved object, or nil while pending, after an error and when absent.
FindObject(id, kind) ==
    IF HasEntry(id, kind) /\ registrations[id].status = "Registered"
    THEN Resolved(kind, id)
    ELSE Nil

\* Find*, the table afterwards: an entry in state Errored or Timeout is
\* reported once and removed.
FindTable(id, kind) ==
    IF HasEntry(id, kind) /\ registrations[id].status \in {"Errored", "Timeout"}
    THEN [registrations EXCEPT ![id] = NoRegistration]
    ELSE registrations

Pending(id, kind) ==
    /\ registrations[id].kind = kind
    /\ registrations[id].status = "AwaitingMediaDriver"

\* The conductor loop consumes the driver's response to an add command.
OnNewPublication(id) ==
    /\ Pending(id, "pub")
    /\ registrations' = [registrations EXCEPT ![id].status = "Registered"]
    /\ UNCHANGED <<callPc, callKind, regID, goPc, found, ch, nextCorrelationId,
                   toDriver, addCount, polled, sent, received>>
    /\ UNCHANGED <<logVars, aeronVars>>

OnNewSubscription(id) ==
    /\ Pending(id, "sub")
    /\ registrations' = [registrations EXCEPT ![id].status = "Registered"]
    /\ UNCHANGED <<callPc, callKind, regID, goPc, found, ch, nextCorrelationId,
                   toDriver, addCount, polled, sent, received>>
    /\ UNCHANGED <<logVars, aeronVars>>

\* The conductor loop consumes an error response of the driver.
OnError(id) ==
    /\ registrations[id].status = "AwaitingMediaDriver"
    /\ registrations' = [registrations EXCEPT ![id].status = "Errored"]
    /\ UNCHANGED <<callPc, callKind, regID, goPc, found, ch, nextCorrelationId,
                   toDriver, addCount, polled, sent, received>>
    /\ UNCHANGED <<logVars, aeronVars>>

\* The conductor's sweep finds the registration older than mediaDriverTimeout.
OnTimeout(id) ==
    /\ registrations[id].status = "AwaitingMediaDriver"
    /\ registrations' = [registrations EXCEPT ![id].status = "Timeout"]
    /\ UNCHANGED <<callPc, callKind, regID, goPc, found, ch, nextCorrelationId,
                   toDriver, addCount, polled, sent, received>>
    /\ UNCHANGED <<logVars, aeronVars>>

\* ---- Aeron.AddPublication / Aeron.AddSubscription (src/aeron/aeron.go) ----

\* ch := make(chan *T, 1); regID := aeron.conductor.Add*(channel, streamID)
AddCall(c, kind) ==
    /\ callPc[c] = "idle"
    /\ callPc' = [callPc EXCEPT ![c] = "added"]
    /\ callKind' = [callKind EXCEPT ![c] = kind]
    /\ ch' = [ch EXCEPT ![c] = MakeChan]
    /\ regID' = [regID EXCEPT ![c] = nextCorrelationId]
    /\ ConductorAdd(kind)
    /\ addCount' = [addCount EXCEPT ![c] = @ + 1]
    /\ UNCHANGED <<goPc, found, polled, sent, received>>
    /\ UNCHANGED <<logVars, aeronVars>>

AddPublication(c) == AddCall(c, "pub")

AddSubscription(c) == AddCall(c, "sub")

\* The place of the go statement in the call: after conductor.Add* returned.
CanSpawn(c) == callPc[c] = "added" /\ goPc[c] = "none"

\* go func() { ... }(); return ch
GoAndReturn(c) ==
    /\ CanSpawn(c)
    /\ goPc' = [goPc EXCEPT ![c] = "find0"]
    /\ callPc' = [callPc EXCEPT ![c] = "returned"]
    /\ UNCHANGED <<callKind, regID, found, ch, nextCorrelationId, registrations,
                   toDriver, addCount, polled, sent, received>>
    /\ UNCHANGED <<logVars, aeronVars>>

\* A goroutine that polls the latest registration instead of its own.
FindArgLatest(c) == nextCorrelationId - 1

\* The argument of the goroutine's Find* calls: the regID its closure captured.
FindArg(c) == regID[c]

\* A loop that is never entered, whatever the first Find* returned.
LoopCondNever(v) == FALSE

\* The loop condition, `for publication == nil`.
LoopCond(v) == v = Nil

\* The goroutine's position after the loop condition is evaluated on v.
AfterTest(v) == IF LoopCond(v) THEN "find" ELSE "send"

\* The kind of table the goroutine polls ("none" before the call chose).
PollKind(c) == callKind[c]

\* publication := aeron.conductor.FindPublication(regID), then the loop test
FirstFind(c) ==
    /\ goPc[c] = "find0"
    /\ found' = [found EXCEPT ![c] = FindObject(FindArg(c), PollKind(c))]
    /\ registrations' = FindTable(FindArg(c), PollKind(c))
    /\ polled' = [polled EXCEPT ![c] = TRUE]
    /\ goPc' = [goPc EXCEPT ![c] = AfterTest(found'[c])]
    /\ UNCHANGED <<callPc, callKind, regID, ch, nextCorrelationId, toDriver,
                   addCount, sent, received>>
    /\ UNCHANGED <<logVars, aeronVars>>

\* The loop body: publication = Find*(regID); if nil, go on to Idle(0),
\* otherwise back to the loop test.
LoopFind(c) ==
    /\ goPc[c] = "find"
    /\ found' = [found EXCEPT ![c] = FindObject(FindArg(c), PollKind(c))]
    /\ registrations' = FindTable(FindArg(c), PollKind(c))
    /\ polled' = [polled EXCEPT ![c] = TRUE]
    /\ goPc' = [goPc EXCEPT ![c] =
                    IF found'[c] = Nil THEN "idle" ELSE AfterTest(found'[c])]
    /\ UNCHANGED <<callPc, callKind, regID, ch, nextCorrelationId, toDriver,
                   addCount, sent, received>>
    /\ UNCHANGED <<logVars, aeronVars>>

\* aeron.context.idleStrategy.Idle(0), then the loop test
Idle(c) ==
    /\ goPc[c] = "idle"
    /\ goPc' = [goPc EXCEPT ![c] = AfterTest(found[c])]
    /\ UNCHANGED <<callPc, callKind, regID, found, ch, nextCorrelationId,
                   registrations, toDriver, addCount, polled, sent,
                   received>>
    /\ UNCHANGED <<logVars, aeronVars>>

\* ch <- publication: blocks while the buffer is full.
Send(c) ==
    /\ goPc[c] = "send"
    /\ ~ch[c].closed
    /\ Len(ch[c].buf) < ChanCap
    /\ ch' = [ch EXCEPT ![c].buf = Append(@, found[c])]
    /\ sent' = [sent EXCEPT ![c] = Append(@, found[c])]
    /\ goPc' = [goPc EXCEPT ![c] = "close"]
    /\ UNCHANGED <<callPc, callKind, regID, found, nextCorrelationId,
                   registrations, toDriver, addCount, polled, received>>
    /\ UNCHANGED <<logVars, aeronVars>>

\* close(ch)
CloseChan(c) ==
    /\ goPc[c] = "close"
    /\ ch' = [ch EXCEPT ![c].closed = TRUE]
    /\ goPc' = [goPc EXCEPT ![c] = "done"]
    /\ UNCHANGED <<callPc, callKind, regID, found, nextCorrelationId,
                   registrations, toDriver, addCount, polled, sent,
                   received>>
    /\ UNCHANGED <<logVars, aeronVars>>

\* The application receives from the channel the call returned: a buffered
\* value first, the closed mark once the channel is closed and drained.
Receive(c) ==
    /\ callPc[c] = "returned"
    /\ IF ch[c].buf # <<>>
       THEN /\ received' = [received EXCEPT ![c] = Append(@, Head(ch[c].buf))]
            /\ ch' = [ch EXCEPT ![c].buf = Tail(@)]
       ELSE /\ ch[c].closed
            /\ ClosedMark \notin {received[c][i] : i \in 1..Len(received[c])}
            /\ received' = [received EXCEPT ![c] = Append(@, ClosedMark)]
            /\ UNCHANGED ch
    /\ UNCHANGED <<callPc, callKind, regID, goPc, found, nextCorrelationId,
                   registrations, toDriver, addCount, polled, sent>>
    /\ UNCHANGED <<logVars, aeronVars>>

GoroutineStep(c) ==
    \/ FirstFind(c)
    \/ LoopFind(c)
    \/ Idle(c)
    \/ Send(c)
    \/ CloseChan(c)

NextAdd ==
    \/ \E c \in Calls : AddPublication(c)
    \/ \E c \in Calls : AddSubscription(c)
    \/ \E c \in Calls : GoAndReturn(c)
    \/ \E c \in Calls : GoroutineStep(c)
    \/ \E c \in Calls : Receive(c)
    \/ \E id \in CorrelationIds : OnNewPublication(id)
    \/ \E id \in CorrelationIds : OnNewSubscription(id)
    \/ \E id \in CorrelationIds : OnError(id)
    \/ \E id \in CorrelationIds : OnTimeout(id)


(***************************************************************************)
(* Part 2: logbuffer.Wrap and LogBuffers.Close                             *)
(*                                                                         *)
(* Lengths are scaled down: a term is 2..16 bytes long instead of          *)
(* 64 KiB..1 GiB and the metadata section 4 bytes instead of 4096, so that *)
(* every file length up to MaxLogLength is enumerated. Wrap's int32(...)   *)
(* conversions of termLength are the identity on every length that passes  *)
(* checkTermLength and are not modelled.                                   *)
(***************************************************************************)

\* The number of term buffers of a log.
PartitionCount == 3

\* The index of the metadata buffer in LogBuffers.buffers.
LogMetaDataSectionIndex == PartitionCount

\* The length of the metadata section at the end of a log file (scaled).
logMetaDataLength == 4

\* The bounds checkTermLength enforces (scaled).
termMinLength == 2

termMaxLength == 16

\* Files of this length or more are mapped section by section (scaled).
maxSingleMappingSize == 28

\* The longest log file enumerated.
MaxLogLength == 54

\* The most LogBuffers.Close calls made on one LogBuffers.
MaxCloses == 2

\* The most mappings of a LogBuffers handed to Close directly.
MaxMaps == 4

\* A nil *memmap.File.
NilFile == 0

\* A nil unsafe.Pointer, and the pointer n bytes into mapping h.
NilPtr == [region |-> 0, offset |-> 0]

\* uintptr(p) + n
PtrAdd(p, n) == [p EXCEPT !.offset = @ + n]

\* atomic.Buffer: the zero value, and Wrap(ptr, capacity).
ZeroBuffer == [ptr |-> NilPtr, capacity |-> 0]

WrapBuffer(ptr, capacity) == [ptr |-> ptr, capacity |-> capacity]

\* A nil error, and the error of a failed unmap of mapping h.
NoError == [file |-> 0, errno |-> "nil"]

Errnos == {"EINVAL", "ENOMEM"}

UnmapResults == {"nil"} \cup Errnos

UnmapError(h, r) == IF r = "nil" THEN NoError ELSE [file |-> h, errno |-> r]

\* Go's integer division truncates toward zero.
GoDiv(a, b) == IF a >= 0 THEN a \div b ELSE -((-a) \div b)

RECURSIVE IsPowerOfTwo(_)
IsPowerOfTwo(n) ==
    IF n < 1 THEN FALSE
    ELSE IF n = 1 THEN TRUE
    ELSE n % 2 = 0 /\ IsPowerOfTwo(n \div 2)

\* memmap.GetFileSize(fileName)
GetFileSize == file.size

\* computeTermLength: (logLength - logMetaDataLength) / PartitionCount
computeTermLength(logLength) == GoDiv(logLength - logMetaDataLength, PartitionCount)

\* checkTermLength returns (TRUE) or panics (FALSE): a power of two within bounds.
checkTermLength(termLength) ==
    /\ termLength >= termMinLength
    /\ termLength <= termMaxLength
    /\ IsPowerOfTwo(termLength)

\* The region memmap.MapExisting(fileName, offset, length) maps: the whole
\* file when offset = 0 and length = 0.
MappedRegion(offset, length) ==
    [offset |-> offset,
     length |-> IF offset = 0 /\ length = 0 THEN file.size ELSE length,
     mapped |-> TRUE]

\* (*memmap.File).GetMemoryPtr: the base address of the mapping.
GetMemoryPtr(h) == [region |-> h, offset |-> 0]

\* Go's s[i] on the 1-based sequence s.
At(s, i) == s[i + 1]

\* The log files enumerated: every length, and a term-length field of the
\* metadata section that the driver may or may not have set to the right value.
MetaTermLengths == {0, 2, 4, 8, 16}

LogFiles == [size : 0..MaxLogLength, metaTermLength : MetaTermLengths]

InitLog ==
    /\ file \in LogFiles
    /\ wrapPc = "start"
    /\ wrapI = 0
    /\ wrapPanic = "none"
    /\ mmapFiles = <<>>
    /\ buffers = [i \in 0..PartitionCount |-> ZeroBuffer]
    /\ maps = <<>>
    /\ mapCalls = <<>>
    /\ unmapLog = <<>>
    /\ closeCalls = 0
    /\ closeErr = NoError

\* The state of the part a specification does not exercise.
IdleLog ==
    /\ file = [size |-> 0, metaTermLength |-> 0]
    /\ wrapPc = "start"
    /\ wrapI = 0
    /\ wrapPanic = "none"
    /\ mmapFiles = <<>>
    /\ buffers = [i \in 0..PartitionCount |-> ZeroBuffer]
    /\ maps = <<>>
    /\ mapCalls = <<>>
    /\ unmapLog = <<>>
    /\ closeCalls = 0
    /\ closeErr = NoError

\* A failure that is passed over: Wrap goes on to return what it has built.
PanicSwallowed(why) ==
    /\ wrapPc' = "returned"
    /\ wrapPanic' = why

\* panic(err): the call ends without returning.
Panic(why) ==
    /\ wrapPc' = "panicked"
    /\ wrapPanic' = why

\* Wrap, lines 37-44: the file's length, the term length, checkTermLength and
\* the choice of the mapping path.
WrapBegin ==
    /\ wrapPc = "start"
    /\ LET logLength == GetFileSize
           termLength == computeTermLength(logLength)
       IN  IF ~checkTermLength(termLength)
           THEN Panic("checkTermLength")
           ELSE /\ wrapPc' = IF logLength < maxSingleMappingSize
                             THEN "single" ELSE "multi"
                /\ UNCHANGED wrapPanic
    /\ wrapI' = -1
    /\ UNCHANGED <<file, mmapFiles, buffers, maps, mapCalls, unmapLog,
                   closeCalls, closeErr>>
    /\ UNCHANGED <<addVars, aeronVars>>

\* Term views that start one term too far into the mapping.
SingleTermPtrOneBased(basePtr, i, termLength) == PtrAdd(basePtr, (i + 1) * termLength)

\* The term views of the single mapping: term i starts i * termLength bytes in.
SingleTermPtr(basePtr, i, termLength) == PtrAdd(basePtr, i * termLength)

\* A metadata view placed right after the terms instead of at the file's end.
SingleMetaPtrAfterTerms(basePtr, logLength, termLength) ==
    PtrAdd(basePtr, PartitionCount * termLength)

\* The metadata view of the single mapping: the last logMetaDataLength bytes.
SingleMetaPtr(basePtr, logLength, termLength) ==
    PtrAdd(basePtr, logLength - logMetaDataLength)

\* Wrap, lines 45-58 and 86-88: one mapping of the whole file, the views
\* carved out of it, the metadata overlay, the return.
WrapSingle(ok) ==
    /\ wrapPc = "single"
    /\ mapCalls' = Append(mapCalls, [offset |-> 0, length |-> 0, ok |-> ok])
    /\ IF ~ok
       THEN /\ Panic("MapExisting")
            /\ UNCHANGED <<mmapFiles, buffers, maps>>
       ELSE LET logLength == GetFileSize
                termLength == computeTermLength(logLength)
                mmap == Len(maps) + 1
                basePtr == GetMemoryPtr(mmap)
            IN  /\ maps' = Append(maps, MappedRegion(0, 0))
                /\ mmapFiles' = <<mmap>>
                /\ buffers' = [i \in 0..PartitionCount |->
                                 IF i < PartitionCount
                                 THEN WrapBuffer(SingleTermPtr(basePtr, i, termLength),
                                                 termLength)
                                 ELSE WrapBuffer(SingleMetaPtr(basePtr, logLength,
                                                               termLength),
                                                 logMetaDataLength)]
                /\ wrapPc' = "returned"
                /\ UNCHANGED wrapPanic
    /\ UNCHANGED <<file, wrapI, unmapLog, closeCalls, closeErr>>
    /\ UNCHANGED <<addVars, aeronVars>>

\* make([](*memmap.File), PartitionCount+1): PartitionCount + 1 nil handles.
MakeFiles == [i \in 1..(PartitionCount + 1) |-> NilFile]

\* Wrap, lines 60-68: the slice of handles and the mapping of the metadata
\* section, appended to the slice.
WrapMultiMeta(ok) ==
    /\ wrapPc = "multi"
    /\ wrapI = -1
    /\ LET logLength == GetFileSize
           termLength == computeTermLength(logLength)
           metaDataSectionOffset == termLength * PartitionCount
           metaDataSectionLength == logLength - metaDataSectionOffset
           mmap == Len(maps) + 1
       IN  /\ mapCalls' = Append(mapCalls, [offset |-> metaDataSectionOffset,
                                            length |-> metaDataSectionLength,
                                            ok |-> ok])
           /\ IF ~ok
              THEN /\ Panic("MapExisting")
                   /\ mmapFiles' = MakeFiles
                   /\ UNCHANGED <<maps, wrapI>>
              ELSE /\ maps' = Append(maps, MappedRegion(metaDataSectionOffset,
                                                        metaDataSectionLength))
                   /\ mmapFiles' = Append(MakeFiles, mmap)
                   /\ wrapI' = 0
                   /\ UNCHANGED <<wrapPc, wrapPanic>>
    /\ UNCHANGED <<file, buffers, unmapLog, closeCalls, closeErr>>
    /\ UNCHANGED <<addVars, aeronVars>>

\* Wrap, lines 70-81: iteration i of the loop maps term i, appends the handle
\* and bases the term's view on mmapFiles[i+1]; a nil handle there panics in
\* GetMemoryPtr. After the last iteration, lines 82-88: the metadata view is
\* based on mmapFiles[0], and Wrap returns.
WrapMultiTerm(ok) ==
    /\ wrapPc = "multi"
    /\ wrapI \in 0..(PartitionCount - 1)
    /\ LET i == wrapI
           termLength == computeTermLength(GetFileSize)
           mmap == Len(maps) + 1
           files == Append(mmapFiles, mmap)
           termBuffers == [buffers EXCEPT ![i] =
                              WrapBuffer(GetMemoryPtr(At(files, i + 1)), termLength)]
       IN  /\ mapCalls' = Append(mapCalls, [offset |-> i * termLength,
                                            length |-> termLength, ok |-> ok])
           /\ IF ~ok
              THEN /\ Panic("MapExisting")
                   /\ UNCHANGED <<mmapFiles, buffers, maps, wrapI>>
              ELSE /\ maps' = Append(maps, MappedRegion(i * termLength, termLength))
                   /\ mmapFiles' = files
                   /\ IF At(files, i + 1) = NilFile
                      THEN /\ Panic("nil dereference")
                           /\ UNCHANGED <<buffers, wrapI>>
                      ELSE IF i + 1 < PartitionCount
                      THEN /\ buffers' = termBuffers
                           /\ wrapI' = i + 1
                           /\ UNCHANGED <<wrapPc, wrapPanic>>
                      ELSE IF At(files, 0) = NilFile
                      THEN /\ Panic("nil dereference")
                           /\ buffers' = termBuffers
                           /\ wrapI' = i + 1
                      ELSE /\ buffers' = [termBuffers EXCEPT ![LogMetaDataSectionIndex] =
                                            WrapBuffer(GetMemoryPtr(At(files, 0)),
                                                       logMetaDataLength)]
                           /\ wrapI' = i + 1
                           /\ wrapPc' = "returned"
                           /\ UNCHANGED wrapPanic
    /\ UNCHANGED <<file, unmapLog, closeCalls, closeErr>>
    /\ UNCHANGED <<addVars, aeronVars>>

\* Meta().TermLength(): the term-length field read through the overlay that
\* line 86 wraps around buffers[PartitionCount].
MetaTermLength == file.metaTermLength

\* ---- LogBuffers.Close ----

\* The loop of Close: err = mmap.Close() for every handle, in order.
RECURSIVE CloseLoop(_, _, _, _)
CloseLoop(files, results, i, err) ==
    IF i > Len(files) THEN err
    ELSE CloseLoop(files, results, i + 1, UnmapError(files[i], results[i]))

\* What Close returns: the err variable after the loop.
CloseResult(files, results) == CloseLoop(files, results, 1, NoError)

\* A Close that keeps its handles.
FilesAfterCloseKept(files) == files

\* logBuffers.mmapFiles = nil
FilesAfterClose(files) == <<>>

\* The handles before the first nil one: a nil handle panics in mmap.Close().
RECURSIVE FilesBeforeNil(_)
FilesBeforeNil(files) ==
    IF files = <<>> \/ Head(files) = NilFile THEN <<>>
    ELSE <<Head(files)>> \o FilesBeforeNil(Tail(files))

\* The unmaps the loop of Close makes on these handles.
UnmapsOf(files, results, call) ==
    [i \in 1..Len(files) |->
        [call |-> call, file |-> files[i], err |-> UnmapError(files[i], results[i])]]

\* A mapping is released by a successful unmap of its handle.
MapsAfter(files, results) ==
    [h \in 1..Len(maps) |->
        IF \E i \in 1..Len(files) : files[i] = h /\ results[i] = "nil"
        THEN [maps[h] EXCEPT !.mapped = FALSE]
        ELSE maps[h]]

\* LogBuffers.Close, with the result of each unmap chosen by the system.
LBClose(results) ==
    /\ wrapPc = "returned"
    /\ closeCalls < MaxCloses
    /\ closeCalls' = closeCalls + 1
    /\ LET files == FilesBeforeNil(mmapFiles)
       IN  /\ unmapLog' = unmapLog \o UnmapsOf(files, results, closeCalls + 1)
           /\ maps' = MapsAfter(files, results)
           /\ IF Len(files) < Len(mmapFiles)
              THEN /\ Panic("nil dereference")
                   /\ UNCHANGED <<mmapFiles, closeErr>>
              ELSE /\ closeErr' = CloseResult(files, results)
                   /\ mmapFiles' = FilesAfterClose(mmapFiles)
                   /\ UNCHANGED <<wrapPc, wrapPanic>>
    /\ UNCHANGED <<file, wrapI, buffers, mapCalls>>
    /\ UNCHANGED <<addVars, aeronVars>>

Close == \E results \in [1..Len(mmapFiles) -> UnmapResults] : LBClose(results)

NextWrap ==
    \/ WrapBegin
    \/ \E ok \in BOOLEAN : WrapSingle(ok)
    \/ \E ok \in BOOLEAN : WrapMultiMeta(ok)
    \/ \E ok \in BOOLEAN : WrapMultiTerm(ok)
    \/ Close

\* A LogBuffers holding n mappings, as handed to Close.
LogBuffersOf(n) ==
    /\ mmapFiles = [h \in 1..n |-> h]
    /\ maps = [h \in 1..n |-> [offset |-> (h - 1) * termMinLength,
                               length |-> termMinLength, mapped |-> TRUE]]

InitClose ==
    /\ file = [size |-> 0, metaTermLength |-> 0]
    /\ wrapPc = "returned"
    /\ wrapI = 0
    /\ wrapPanic = "none"
    /\ \E n \in 0..MaxMaps : LogBuffersOf(n)
    /\ buffers = [i \in 0..PartitionCount |-> ZeroBuffer]
    /\ mapCalls = <<>>
    /\ unmapLog = <<>>
    /\ closeCalls = 0
    /\ closeErr = NoError

NextClose == Close


(***************************************************************************)
(* Part 3: Connect and Aeron.Close                                         *)
(***************************************************************************)

\* The most iterations of the conductor loop that are followed.
MaxWork == 2

\* A nil error, and the error `errno` returned by operation `op`.
NilErr == [op |-> "none", errno |-> "nil"]

ErrorOf(op, r) == IF r = "nil" THEN NilErr ELSE [op |-> op, errno |-> r]

\* What conductor.Close may return.
ConductorResults == {"nil", "DriverTimeout", "IoError"}

\* A Connect that launches the conductor before it sets the image handlers.
ConnectStepsRunEarly ==
    << "MapFile", "toDriverRingBuffer", "driverProxy",
       "toClientsBroadcastReceiver", "toClientsCopyReceiver", "conductor.Init",
       "counterValuesBuffer", "go conductor.Run", "onAvailableImageHandler",
       "onUnavailableImageHandler", "return" >>

\* The statements of Connect, in order.
ConnectSteps ==
    << "MapFile", "toDriverRingBuffer", "driverProxy",
       "toClientsBroadcastReceiver", "toClientsCopyReceiver", "conductor.Init",
       "counterValuesBuffer", "onAvailableImageHandler",
       "onUnavailableImageHandler", "go conductor.Run", "return" >>

\* The statements of Connect that set a part of the client.
WiringSteps ==
    { "toDriverRingBuffer", "driverProxy", "toClientsBroadcastReceiver",
      "toClientsCopyReceiver", "conductor.Init", "counterValuesBuffer",
      "onAvailableImageHandler", "onUnavailableImageHandler" }

\* What an iteration of the conductor loop uses.
RequiredWiring == WiringSteps \cup {"MapFile"}

InitAeron ==
    /\ connectPc = 1
    /\ connectState = "connecting"
    /\ wired = {}
    /\ conductorStarted = 0
    /\ conductorRunning = FALSE
    /\ workCount = 0
    /\ sawUnset = FALSE
    /\ aeronClosePc = "idle"
    /\ aeronErr = NilErr
    /\ conductorErr = NilErr
    /\ cncErr = NilErr
    /\ closeEvents = <<>>
    /\ aeronCloseRet = NilErr

Connecting(step) ==
    /\ connectState = "connecting"
    /\ connectPc \in 1..Len(ConnectSteps)
    /\ ConnectSteps[connectPc] = step

closeVars == <<aeronClosePc, aeronErr, conductorErr, cncErr, closeEvents,
               aeronCloseRet>>

\* aeron.counters, aeron.cncFile = counters.MapFile(ctx.CncFileName()): a
\* mapping failure at startup is fatal.
ConnectMapFile(ok) ==
    /\ Connecting("MapFile")
    /\ IF ok
       THEN /\ wired' = wired \cup {"MapFile"}
            /\ connectPc' = connectPc + 1
            /\ UNCHANGED connectState
       ELSE /\ connectState' = "panicked"
            /\ UNCHANGED <<wired, connectPc>>
    /\ UNCHANGED <<conductorStarted, conductorRunning, workCount, sawUnset>>
    /\ UNCHANGED closeVars
    /\ UNCHANGED <<addVars, logVars>>

\* One of the statements that initialise or assign a part of the client.
ConnectWire ==
    /\ \E step \in WiringSteps :
          /\ Connecting(step)
          /\ wired' = wired \cup {step}
    /\ connectPc' = connectPc + 1
    /\ UNCHANGED <<connectState, conductorStarted, conductorRunning, workCount,
                   sawUnset>>
    /\ UNCHANGED closeVars
    /\ UNCHANGED <<addVars, logVars>>

\* go aeron.conductor.Run(ctx.idleStrategy)
ConnectGo ==
    /\ Connecting("go conductor.Run")
    /\ conductorStarted' = conductorStarted + 1
    /\ conductorRunning' = TRUE
    /\ connectPc' = connectPc + 1
    /\ UNCHANGED <<connectState, wired, workCount, sawUnset>>
    /\ UNCHANGED closeVars
    /\ UNCHANGED <<addVars, logVars>>

\* return aeron
ConnectReturn ==
    /\ Connecting("return")
    /\ connectState' = "connected"
    /\ connectPc' = connectPc + 1
    /\ UNCHANGED <<wired, conductorStarted, conductorRunning, workCount, sawUnset>>
    /\ UNCHANGED closeVars
    /\ UNCHANGED <<addVars, logVars>>

\* One iteration of the conductor loop: it polls the copy receiver, uses the
\* driver proxy and the counter values, and may invoke the image handlers.
ConductorWork ==
    /\ conductorRunning
    /\ workCount < MaxWork
    /\ workCount' = workCount + 1
    /\ sawUnset' = (sawUnset \/ ~(RequiredWiring \subseteq wired))
    /\ UNCHANGED <<connectPc, connectState, wired, conductorStarted,
                   conductorRunning>>
    /\ UNCHANGED closeVars
    /\ UNCHANGED <<addVars, logVars>>

\* A Close that reports every result to the error handler, nil included.
HandlerCalledAlways(err) == TRUE

\* if nil != err { aeron.context.errorHandler(err) }
HandlerCalled(err) == err # NilErr

\* err := aeron.conductor.Close(), and the test of err
AeronCloseConductor(r) ==
    /\ connectState = "connected"
    /\ aeronClosePc = "idle"
    /\ LET err == ErrorOf("conductor.Close", r)
       IN  /\ aeronErr' = err
           /\ conductorErr' = err
           /\ aeronClosePc' = IF HandlerCalled(err) THEN "handler1" ELSE "unmap"
    /\ closeEvents' = Append(closeEvents, [call |-> "conductor.Close", err |-> NilErr])
    /\ conductorRunning' = IF r = "nil" THEN FALSE ELSE conductorRunning
    /\ UNCHANGED <<connectPc, connectState, wired, conductorStarted, workCount,
                   sawUnset, cncErr, aeronCloseRet>>
    /\ UNCHANGED <<addVars, logVars>>

\* aeron.context.errorHandler(err), after either step
AeronCloseHandler ==
    /\ aeronClosePc \in {"handler1", "handler2"}
    /\ closeEvents' = Append(closeEvents, [call |-> "errorHandler", err |-> aeronErr])
    /\ aeronClosePc' = IF aeronClosePc = "handler1" THEN "unmap" ELSE "return"
    /\ UNCHANGED <<connectPc, connectState, wired, conductorStarted,
                   conductorRunning, workCount, sawUnset, aeronErr, conductorErr,
                   cncErr, aeronCloseRet>>
    /\ UNCHANGED <<addVars, logVars>>

\* err = aeron.cncFile.Close(), and the test of err
AeronCloseCnc(r) ==
    /\ aeronClosePc = "unmap"
    /\ LET err == ErrorOf("cncFile.Close", r)
       IN  /\ aeronErr' = err
           /\ cncErr' = err
           /\ aeronClosePc' = IF HandlerCalled(err) THEN "handler2" ELSE "return"
    /\ closeEvents' = Append(closeEvents, [call |-> "cncFile.Close", err |-> NilErr])
    /\ UNCHANGED <<connectPc, connectState, wired, conductorStarted,
                   conductorRunning, workCount, sawUnset, conductorErr,
                   aeronCloseRet>>
    /\ UNCHANGED <<addVars, logVars>>

\* return err
AeronCloseReturn ==
    /\ aeronClosePc = "return"
    /\ aeronCloseRet' = aeronErr
    /\ aeronClosePc' = "closed"
    /\ UNCHANGED <<connectPc, connectState, wired, conductorStarted,
                   conductorRunning, workCount, sawUnset, aeronErr, conductorErr,
                   cncErr, closeEvents>>
    /\ UNCHANGED <<addVars, logVars>>

\* The steps of a Close call that has started.
AeronCloseStep ==
    \/ AeronCloseHandler
    \/ \E r \in UnmapResults : AeronCloseCnc(r)
    \/ AeronCloseReturn

NextAeron ==
    \/ \E ok \in BOOLEAN : ConnectMapFile(ok)
    \/ ConnectWire
    \/ ConnectGo
    \/ ConnectReturn
    \/ ConductorWork
    \/ \E r \in ConductorResults : AeronCloseConductor(r)
    \/ AeronCloseStep

(***************************************************************************)
(* Specifications                                                          *)
(***************************************************************************)

\* The Add* calls, their goroutines, the conductor and the receivers.
InitSpecAdd == InitAdd /\ IdleLog /\ InitAeron

SpecAdd == InitSpecAdd /\ [][NextAdd]_vars

\* The same, with the scheduling the Go runtime gives: a goroutine that can
\* take a step eventually takes it, a started call goes on to its return, and
\* the conductor's sweep eventually times out a registration that stays
\* unanswered. The driver's answers are not guaranteed.
FairSpecAdd ==
    /\ SpecAdd
    /\ \A c \in Calls : WF_vars(GoroutineStep(c))
    /\ \A c \in Calls : WF_vars(GoAndReturn(c))
    /\ \A id \in CorrelationIds : WF_vars(OnTimeout(id))

\* Wrap of a log file on disk, then Close of what it returned.
InitSpecWrap == InitLog /\ InitAdd /\ InitAeron

SpecWrap == InitSpecWrap /\ [][NextWrap]_vars

\* Close of a LogBuffers holding any number of mappings.
InitSpecClose == InitClose /\ InitAdd /\ InitAeron

InitSpecAeron == InitAeron /\ InitAdd /\ IdleLog

\* Connect, the conductor it starts, and Aeron.Close on the connected client.
SpecAeron == InitSpecAeron /\ [][NextAeron]_vars

SpecClose == InitSpecClose /\ [][NextClose]_vars


(***************************************************************************)
(* Claims about Aeron.AddPublication / Aeron.AddSubscription               *)
(***************************************************************************)

\* The values a receiver got before position i of its history.
ReceivedBefore(c, i) == {received[c][j] : j \in 1..(i - 1)}

\* C1: an Add* call returns its channel without waiting for the driver (once
\* conductor.Add* has returned, the go statement and the return can always
\* be taken); at most one value is ever sent on the channel, that value is
\* never nil, the channel is closed only after the value was sent, and a
\* receiver sees the channel closed only after it got that value.
C1_ChannelContract ==
    \A c \in Calls :
        /\ callPc[c] = "added" => ENABLED GoAndReturn(c)
        /\ Len(sent[c]) <= 1
        /\ \A i \in 1..Len(sent[c]) : sent[c][i] # Nil
        /\ Len(ch[c].buf) <= ChanCap
        /\ ch[c].closed => Len(sent[c]) = 1
        /\ \A i \in 1..Len(received[c]) :
              /\ received[c][i] # Nil
              /\ received[c][i] = ClosedMark => sent[c][1] \in ReceivedBefore(c, i)

\* C1's case: one call has returned while its registration still awaits the
\* driver, and another call's receiver got the object and then saw the
\* channel closed.
C1_Witness ==
    \E c, d \in Calls :
        /\ callPc[c] = "returned"
        /\ registrations[regID[c]].status = "AwaitingMediaDriver"
        /\ Len(received[d]) = 2
        /\ received[d][2] = ClosedMark

\* The add commands in the ring that carry correlation id `id`.
CommandsFor(id) == {i \in 1..Len(toDriver) : toDriver[i].correlationId = id}

\* C2: whatever the interleaving of the calls and of the driver's responses,
\* what a call's channel delivers is the object resolved for the correlation
\* id conductor.Add* returned to that call (ids of different calls differ);
\* conductor.Add* is invoked exactly once per call, writes one command, and
\* no Find* poll of the call precedes it.
C2_OwnRegistration ==
    \A c \in Calls :
        /\ addCount[c] <= 1
        /\ polled[c] => addCount[c] = 1
        /\ callPc[c] = "returned" => addCount[c] = 1
        /\ addCount[c] = 1 =>
              /\ Cardinality(CommandsFor(regID[c])) = 1
              /\ \A i \in CommandsFor(regID[c]) : toDriver[i].type = callKind[c]
        /\ \A d \in Calls : (d # c /\ regID[c] # 0) => regID[d] # regID[c]
        /\ \A i \in 1..Len(sent[c]) :
              /\ sent[c][i] = Resolved(callKind[c], regID[c])
              /\ registrations[regID[c]] = [kind |-> callKind[c], status |-> "Registered"]
        /\ \A i \in 1..Len(received[c]) :
              received[c][i] \in {Resolved(callKind[c], regID[c]), ClosedMark}

\* C2's case: two concurrent calls, the one that registered second being
\* call 1, have both had their own object delivered.
C2_Witness ==
    /\ NumCalls >= 2
    /\ regID[1] = 2
    /\ regID[2] = 1
    /\ \A c \in {1, 2} :
          /\ Len(received[c]) >= 1
          /\ received[c][1] = Resolved(callKind[c], regID[c])

\* C3: when a registration times out (Find* reports it once and returns nil
\* from then on), the polling goroutine gives up and the channel is
\* eventually closed.
C3_TimeoutClosesChannel ==
    \A c \in Calls :
        (regID[c] # 0 /\ registrations[regID[c]].status = "Timeout") ~> ch[c].closed


(***************************************************************************)
(* Claims about logbuffer.Wrap                                             *)
(***************************************************************************)

\* The term length Wrap computes for the file, and whether it passes the check.
TermLength == computeTermLength(file.size)

ValidTermLength == checkTermLength(TermLength)

InSinglePath == ValidTermLength /\ file.size < maxSingleMappingSize

InMultiPath == ValidTermLength /\ file.size >= maxSingleMappingSize

WrapEnded == wrapPc \in {"returned", "panicked"}

AllMapsSucceeded == \A i \in 1..Len(mapCalls) : mapCalls[i].ok

\* The view of `capacity` bytes that starts `offset` bytes into mapping h.
ViewAt(h, offset, capacity) ==
    [ptr |-> [region |-> h, offset |-> offset], capacity |-> capacity]

\* C4: for a file that passes the term-length check and is shorter than
\* maxSingleMappingSize, Wrap calls MapExisting exactly once, with offset 0
\* and length 0 (the whole file); in the LogBuffers it returns, Buffer(i) is
\* the termLength bytes at i * termLength of that mapping for each term i,
\* and Buffer(PartitionCount) the logMetaDataLength bytes at
\* logLength - logMetaDataLength.
C4_SingleMapping ==
    InSinglePath =>
        /\ Len(mapCalls) <= 1
        /\ \A k \in 1..Len(mapCalls) : mapCalls[k].offset = 0 /\ mapCalls[k].length = 0
        /\ WrapEnded => Len(mapCalls) = 1
        /\ wrapPc = "returned" =>
              /\ Len(maps) = 1
              /\ maps[1].offset = 0
              /\ maps[1].length = file.size
              /\ \A i \in 0..(PartitionCount - 1) :
                    buffers[i] = ViewAt(1, i * TermLength, TermLength)
              /\ buffers[PartitionCount] =
                    ViewAt(1, file.size - logMetaDataLength, logMetaDataLength)

\* C4's case: Wrap returned the single mapping of a file whose length leaves
\* a remainder, so that the metadata view does not start where the terms end.
C4_Witness ==
    /\ wrapPc = "returned"
    /\ InSinglePath
    /\ file.size # PartitionCount * TermLength + logMetaDataLength
    /\ Len(mmapFiles) = 1
    /\ buffers[PartitionCount].capacity = logMetaDataLength

\* C5: for a valid file of maxSingleMappingSize bytes or more (all of whose
\* mappings succeed) Wrap completes, having made exactly PartitionCount + 1
\* mappings, term i's at offset i * termLength and of length termLength, the
\* metadata's at PartitionCount * termLength; Buffer(i) is based at the start
\* of term i's own mapping, the metadata buffer at the start of the metadata
\* mapping, and mmapFiles holds exactly those mappings.
C5_MultiMapping ==
    (InMultiPath /\ AllMapsSucceeded) =>
        /\ wrapPc # "panicked"
        /\ wrapPc = "returned" =>
              /\ Len(mapCalls) = PartitionCount + 1
              /\ Len(mmapFiles) = PartitionCount + 1
              /\ \A k \in 1..Len(mmapFiles) : mmapFiles[k] # NilFile
              /\ \A i \in 0..(PartitionCount - 1) :
                    \E h \in 1..Len(maps) :
                        /\ maps[h].offset = i * TermLength
                        /\ maps[h].length = TermLength
                        /\ buffers[i] = ViewAt(h, 0, TermLength)
              /\ \E h \in 1..Len(maps) :
                    /\ maps[h].offset = PartitionCount * TermLength
                    /\ buffers[PartitionCount] = ViewAt(h, 0, logMetaDataLength)

\* C6: Wrap returns a LogBuffers only for a file whose length is exactly
\* PartitionCount * termLength + logMetaDataLength for a power of two
\* termLength within the bounds.
C6_RejectsBadLength ==
    wrapPc = "returned" =>
        \E t \in termMinLength..termMaxLength :
            /\ IsPowerOfTwo(t)
            /\ file.size = PartitionCount * t + logMetaDataLength

\* C7: in every LogBuffers Wrap returns, Meta().TermLength() equals the
\* capacity of each term buffer, whatever the file's metadata holds.
C7_MetaTermLength ==
    wrapPc = "returned" =>
        \A i \in 0..(PartitionCount - 1) : MetaTermLength = buffers[i].capacity

(***************************************************************************)
(* Claims about LogBuffers.Close                                           *)
(***************************************************************************)

\* The unmaps made by the n-th Close call, in order.
UnmapsOfCall(n) == SelectSeq(unmapLog, LAMBDA u : u.call = n)

\* The error of the earliest failing unmap of a sequence of unmaps, or nil.
RECURSIVE FirstError(_)
FirstError(unmaps) ==
    IF unmaps = <<>> THEN NoError
    ELSE IF Head(unmaps).err # NoError THEN Head(unmaps).err
    ELSE FirstError(Tail(unmaps))

\* C8: Close returns the error of the earliest failing unmap, and nil only
\* if every unmap succeeded.
C8_FirstError ==
    closeCalls = 1 => closeErr = FirstError(UnmapsOfCall(1))

\* The unmaps ever attempted on mapping h.
UnmapsOfMap(h) == {k \in 1..Len(unmapLog) : unmapLog[k].file = h}

\* C9: whichever path Wrap takes for a valid file (its mappings succeeding),
\* it builds a LogBuffers, and Close on it attempts the unmap of every
\* mapping Wrap created exactly once, whatever the earlier unmaps returned.
C9_CloseUnmapsAll ==
    (ValidTermLength /\ AllMapsSucceeded /\ WrapEnded) =>
        /\ wrapPc = "returned"
        /\ closeCalls >= 1 =>
              \A h \in 1..Len(maps) : Cardinality(UnmapsOfMap(h)) = 1

\* C10: after a first Close, whatever it returned, the LogBuffers holds no
\* mappings; a later Close unmaps nothing (every unmap ever made is the
\* first call's, and no mapping is unmapped twice) and returns nil.
C10_CloseIdempotent ==
    closeCalls >= 1 =>
        /\ mmapFiles = <<>>
        /\ \A k \in 1..Len(unmapLog) : unmapLog[k].call = 1
        /\ \A h \in 1..Len(maps) : Cardinality(UnmapsOfMap(h)) <= 1
        /\ closeCalls >= 2 => closeErr = NoError

\* C10's case: a second Close after a first one that unmapped several
\* mappings and failed on one of them.
C10_Witness ==
    /\ closeCalls = 2
    /\ Len(unmapLog) >= 2
    /\ \E k \in 1..Len(unmapLog) : unmapLog[k].err # NoError


\* The views of a LogBuffers: Buffer(0..PartitionCount); Meta() overlays the last.
Views == 0..PartitionCount

\* Whether a view still points into a mapping that has been released.
Dangling(i) ==
    /\ buffers[i].ptr.region # 0
    /\ ~maps[buffers[i].ptr.region].mapped

\* C11: once LogBuffers.Close has returned, no view obtainable through
\* Buffer(i) or Meta() refers to a region that Close unmapped.
C11_ViewsInvalidated ==
    closeCalls >= 1 => \A i \in Views : ~Dangling(i)

\* The bytes of the mapping a view covers: [ViewStart, ViewEnd).
ViewStart(i) == buffers[i].ptr.offset

ViewEnd(i) == buffers[i].ptr.offset + buffers[i].capacity

\* C14: in the single-mapping layout the three term views and the metadata
\* view are pairwise disjoint, the terms being [i * termLength,
\* (i + 1) * termLength) and the metadata [logLength - logMetaDataLength,
\* logLength), and all lie inside the mapped region [0, logLength).
C14_ViewsDisjoint ==
    (wrapPc = "returned" /\ InSinglePath) =>
        /\ \A i \in Views :
              /\ buffers[i].ptr.region = 1
              /\ 0 <= ViewStart(i)
              /\ ViewStart(i) < ViewEnd(i)
              /\ ViewEnd(i) <= maps[1].length
        /\ \A i, j \in Views :
              i < j => ViewEnd(i) <= ViewStart(j)
        /\ \A i \in 0..(PartitionCount - 1) :
              /\ ViewStart(i) = i * TermLength
              /\ ViewEnd(i) = (i + 1) * TermLength
        /\ ViewEnd(PartitionCount) = file.size

\* C14's case: Wrap returned the single mapping of a file of the longest
\* term length that is still mapped whole.
C14_Witness ==
    /\ wrapPc = "returned"
    /\ InSinglePath
    /\ TermLength > termMinLength
    /\ mapCalls = <<[offset |-> 0, length |-> 0, ok |-> TRUE]>>
    /\ ViewEnd(PartitionCount - 1) = ViewStart(PartitionCount)

SomeMapFailed == \E k \in 1..Len(mapCalls) : ~mapCalls[k].ok

\* C17, as claimed: if a MapExisting call fails, Wrap panics instead of
\* returning, and every mapping the call had created has been unmapped.
C17_NoLeakOnFailure ==
    SomeMapFailed =>
        /\ wrapPc = "panicked"
        /\ \A h \in 1..Len(maps) : ~maps[h].mapped

\* C17, as the code has it: if a MapExisting call fails, in either path,
\* Wrap panics at that call (it is the last one made) and returns no
\* LogBuffers; it unmaps nothing, so the mappings it had created stay mapped.
C17_PanicOnMapFailure ==
    SomeMapFailed =>
        /\ wrapPc = "panicked"
        /\ wrapPanic = "MapExisting"
        /\ \A k \in 1..Len(mapCalls) : ~mapCalls[k].ok => k = Len(mapCalls)
        /\ closeCalls = 0
        /\ unmapLog = <<>>
        /\ \A h \in 1..Len(maps) : maps[h].mapped

\* C17's case: in the multi-mapping path the metadata was mapped and the
\* mapping of the first term failed.
C17_Witness ==
    /\ wrapPanic = "MapExisting"
    /\ Len(mapCalls) = 2
    /\ mapCalls[1].ok
    /\ ~mapCalls[2].ok
    /\ Len(maps) = 1


\* Find*(regID) returns a non-nil object to the goroutine of call c from now on.
FindResolves(c) ==
    /\ regID[c] # 0
    /\ registrations[regID[c]] = [kind |-> callKind[c], status |-> "Registered"]

\* The goroutine of call c has sent once, closed the channel and ended.
GoroutineFinished(c) ==
    /\ goPc[c] = "done"
    /\ ch[c].closed
    /\ sent[c] = <<Resolved(callKind[c], regID[c])>>

\* C13: under weak fairness of the goroutines, once Find*(regID) returns a
\* non-nil object the goroutine of the call eventually sends it, closes the
\* channel and terminates, whether or not anybody receives: the one send
\* finds the buffered slot free.
C13_ResolvedIsDelivered ==
    \A c \in Calls : FindResolves(c) ~> GoroutineFinished(c)

\* C13's case: a goroutine has finished although nothing was ever received
\* from its channel, the object still sitting in the buffer.
C13_Witness ==
    \E c \in Calls :
        /\ GoroutineFinished(c)
        /\ received[c] = <<>>
        /\ ch[c].buf = sent[c]


(***************************************************************************)
(* Claims about Connect and Aeron.Close                                    *)
(***************************************************************************)

\* C12: Aeron.Close returns the first error: conductor.Close's if it failed,
\* whatever the unmap of the CnC file did; the unmap's error only if
\* conductor.Close succeeded; nil only if both succeeded.
C12_FirstError ==
    aeronClosePc = "closed" =>
        aeronCloseRet = IF conductorErr # NilErr THEN conductorErr ELSE cncErr

\* The calls a complete Aeron.Close makes, given what the two steps returned.
CloseCallsFor(e1, e2) ==
    <<[call |-> "conductor.Close", err |-> NilErr]>>
    \o (IF e1 # NilErr THEN <<[call |-> "errorHandler", err |-> e1]>> ELSE <<>>)
    \o <<[call |-> "cncFile.Close", err |-> NilErr]>>
    \o (IF e2 # NilErr THEN <<[call |-> "errorHandler", err |-> e2]>> ELSE <<>>)

IsPrefix(s, t) == Len(s) <= Len(t) /\ \A k \in 1..Len(s) : s[k] = t[k]

\* C15: Aeron.Close calls conductor.Close first and then, whatever that
\* returned, cncFile.Close; it calls the errorHandler exactly once for each
\* of the two that failed, with its error and right after it, and never for
\* one that succeeded; a started Close is never stuck before its return.
C15_CloseContinues ==
    /\ IsPrefix(closeEvents, CloseCallsFor(conductorErr, cncErr))
    /\ aeronClosePc = "closed" => closeEvents = CloseCallsFor(conductorErr, cncErr)
    /\ aeronClosePc \in {"handler1", "handler2", "unmap", "return"} =>
          ENABLED AeronCloseStep

\* C15's case: a Close that has returned after both steps failed.
C15_Witness ==
    /\ aeronClosePc = "closed"
    /\ conductorErr # NilErr
    /\ cncErr # NilErr
    /\ Len(closeEvents) = 4

\* C16: the conductor goroutine is launched only once every part of the
\* client is set (ring buffer, driver proxy, both receivers, conductor.Init,
\* counter values buffer, both image handlers), so that no iteration of its
\* loop runs with a part unset, and a Connect that returns has launched
\* exactly one.
C16_WiredBeforeRun ==
    /\ conductorStarted <= 1
    /\ conductorStarted >= 1 => RequiredWiring \subseteq wired
    /\ workCount >= 1 => conductorStarted = 1
    /\ ~sawUnset
    /\ connectState = "connected" => conductorStarted = 1
    /\ connectState = "panicked" => conductorStarted = 0

\* C16's case: the conductor loop has run before Connect returned.
C16_Witness ==
    /\ connectState = "connecting"
    /\ conductorStarted = 1
    /\ workCount >= 1


====
